---- MODULE Spec2Model ----
(***************************************************************************)
(* A model of pinyin/model.py: the syllable parser (Pinyin.parse), the     *)
(* tokenizer (tokenize, tokenizeonewitherhua), the formatting visitor      *)
(* (flatten), Word.spacedwordfromunspacedtokens, tonedcharactersfromreading*)
(* and PinyinTonifier.tonify.                                              *)
(*                                                                         *)
(* A unicode string is a sequence of code points.  A code point is a       *)
(* record [b, u, m]: b is the base character ("" for a combining mark      *)
(* standing on its own), u says whether a diaeresis is attached and m is   *)
(* the attached tone mark (0 none, 1 macron U+0304, 2 acute U+0301,        *)
(* 3 caron U+030C, 4 grave U+0300).  So [b |-> "i", u |-> FALSE, m |-> 3]  *)
(* is the precomposed U+01D0, [b |-> "u", u |-> TRUE, m |-> 0] is U+00FC,  *)
(* and [b |-> "", u |-> FALSE, m |-> 3] is the combining caron itself.     *)
(***************************************************************************)
EXTENDS Integers, Sequences, FiniteSets, TLC

VARIABLES pc, text, forcenumeric, pinyin, reading_tokens, ret, output

vars == <<pc, text, forcenumeric, pinyin, reading_tokens, ret, output>>

(***************************************************************************)
(* Bounds of the model.                                                    *)
(***************************************************************************)
\* longest text handed to tokenize
MaxLen == 4
\* longest text handed to Pinyin.parse directly
MaxParseLen == 3
\* most letters in front of the tone digit of a line handed to tonify
MaxLetters == 4
\* longest reading_tokens list
MaxTokens == 3
\* longest characters string handed to tonedcharactersfromreading
MaxChars == 2

(***************************************************************************)
(* Code points and strings.                                                *)
(***************************************************************************)
\* Python's None (the value of ToneInfo.written after ToneInfo(written=0))
None == -1

\* a plain character
L(c) == [b |-> c, u |-> FALSE, m |-> 0]

\* a precomposed letter carrying tone mark k
T(c, k) == [b |-> c, u |-> FALSE, m |-> k]

\* u-umlaut, lower and upper case
uuml == [b |-> "u", u |-> TRUE, m |-> 0]

Uuml == [b |-> "U", u |-> TRUE, m |-> 0]

\* the combining diaeresis U+0308 on its own
diaeresis == [b |-> "", u |-> TRUE, m |-> 0]

\* a unicode literal, written as a tuple of one-character strings
S(s) == [i \in DOMAIN s |-> L(s[i])]

UpperCase == <<"A","B","C","D","E","F","G","H","I","J","K","L","M",
               "N","O","P","Q","R","S","T","U","V","W","X","Y","Z">>

LowerCase == <<"a","b","c","d","e","f","g","h","i","j","k","l","m",
               "n","o","p","q","r","s","t","u","v","w","x","y","z">>

Digits == {"0","1","2","3","4","5","6","7","8","9"}

DigitValue(d) ==
  CASE d = "0" -> 0 [] d = "1" -> 1 [] d = "2" -> 2 [] d = "3" -> 3 [] d = "4" -> 4
    [] d = "5" -> 5 [] d = "6" -> 6 [] d = "7" -> 7 [] d = "8" -> 8 [] d = "9" -> 9

DigitChar == <<"1","2","3","4","5","6","7","8","9">>

\* unicode.isdigit() of one character
isdigit(c) == c.b \in Digits /\ ~c.u /\ c.m = 0

\* str(x) for the values a tone can take: an int 0..9 or None
str(x) ==
  IF x = None THEN S(<<"N","o","n","e">>)
  ELSE IF x = 0 THEN S(<<"0">>) ELSE S(<<DigitChar[x]>>)

LowerBase(b) ==
  IF \E i \in 1..26 : UpperCase[i] = b
  THEN LowerCase[CHOOSE i \in 1..26 : UpperCase[i] = b]
  ELSE b

\* unicode.lower()
lower(s) == [i \in DOMAIN s |-> [s[i] EXCEPT !.b = LowerBase(s[i].b)]]

\* s.replace(x, y) for a one-character x
RECURSIVE replace1(_, _, _)
replace1(s, x, y) ==
  IF s = <<>> THEN <<>>
  ELSE IF Head(s) = x THEN y \o replace1(Tail(s), x, y)
  ELSE <<Head(s)>> \o replace1(Tail(s), x, y)

\* s.replace(x1 x2, y) for a two-character pattern, leftmost matches first
RECURSIVE replace2(_, _, _, _)
replace2(s, x1, x2, y) ==
  IF Len(s) < 2 THEN s
  ELSE IF s[1] = x1 /\ s[2] = x2 THEN y \o replace2(SubSeq(s, 3, Len(s)), x1, x2, y)
  ELSE <<Head(s)>> \o replace2(Tail(s), x1, x2, y)

(***************************************************************************)
(* unicodedata.normalize.  Every combining mark of the model has canonical *)
(* combining class 230, so NFD never reorders, and in NFC a starter takes  *)
(* the marks that follow it one at a time until one does not compose.      *)
(***************************************************************************)
Vowels == {"a","e","i","o","u","A","E","I","O","U"}

\* is there a code point for base b with (diaeresis u and) tone mark m
HasPrecomposed(b, u, m) ==
  IF u THEN b \in {"u", "U"}
  ELSE \/ m = 0
       \/ b \in Vowels
       \/ b \in {"n", "N"} /\ m \in {2, 3, 4}
       \/ b \in {"r", "R"} /\ m \in {2, 3}
       \/ b \in {"g", "G"} /\ m \in {1, 2, 3}

Decompose(c) ==
  IF c.b = "" THEN <<c>>
  ELSE <<L(c.b)>> \o (IF c.u THEN <<diaeresis>> ELSE <<>>)
                  \o (IF c.m > 0 THEN <<T("", c.m)>> ELSE <<>>)

RECURSIVE NFD(_)
NFD(s) == IF s = <<>> THEN <<>> ELSE Decompose(Head(s)) \o NFD(Tail(s))

\* can the combining mark k be fused onto the code point c
Composes(c, k) ==
  /\ c.b # "" /\ k.b = ""
  /\ IF k.u THEN ~c.u /\ c.m = 0 /\ HasPrecomposed(c.b, TRUE, 0)
            ELSE c.m = 0 /\ HasPrecomposed(c.b, c.u, k.m)

Compose(c, k) == IF k.u THEN [c EXCEPT !.u = TRUE] ELSE [c EXCEPT !.m = k.m]

\* acc is the composed prefix, blocked says its last starter takes no more marks
RECURSIVE NFCfrom(_, _, _)
NFCfrom(acc, blocked, s) ==
  IF s = <<>> THEN acc
  ELSE LET k == Head(s) IN
       IF k.b # "" THEN NFCfrom(Append(acc, k), FALSE, Tail(s))
       ELSE IF acc # <<>> /\ ~blocked /\ Composes(acc[Len(acc)], k)
       THEN NFCfrom([acc EXCEPT ![Len(acc)] = Compose(acc[Len(acc)], k)], FALSE, Tail(s))
       ELSE NFCfrom(Append(acc, k), TRUE, Tail(s))

NFC(s) == NFCfrom(<<>>, FALSE, NFD(s))

(***************************************************************************)
(* Module-level helpers of model.py.                                       *)
(***************************************************************************)
tonecombiningmarks == <<T("", 1), T("", 2), T("", 3), T("", 4)>>

substituteForUUmlaut(inwhat) ==
  replace1(replace1(replace2(replace2(inwhat, L("u"), L(":"), <<uuml>>),
                             L("U"), L(":"), <<Uuml>>),
                    L("v"), <<uuml>>),
           L("V"), <<Uuml>>)

\* ToneInfo(written=w): "written or spoken" and "spoken or written" with spoken None
ToneInfo(w) ==
  [written |-> IF w = 0 THEN None ELSE w,
   spoken  |-> w]

\* the set Pinyin.validpinyin(): the sentinel "r" and the rows of the syllable
\* table, lower-cased and with u-umlaut normalised (a sample of the rows)
validpinyin ==
  { S(<<"r">>), S(<<"a">>), S(<<"n","i">>), S(<<"a","i">>), <<L("n"), uuml>>,
    S(<<"z","h","u","a","n","g">>) }

Pinyin(word, toneinfo) == [type |-> "Pinyin", word |-> word, toneinfo |-> toneinfo]

Raise(kind) == [ok |-> FALSE, err |-> kind]

Return(v) == [ok |-> TRUE, val |-> v]

(***************************************************************************)
(* Pinyin.parse.  A call either raises (ok FALSE) or returns (ok TRUE).    *)
(***************************************************************************)
\* the loop over tonecombiningmarks: n is the next index, toneinfo is None
\* until a mark was found, word is the text with the found marks removed
RECURSIVE ScanMarks(_, _, _, _)
ScanMarks(n, toneinfo, word, nfd) ==
  IF n > Len(tonecombiningmarks) THEN Return([toneinfo |-> toneinfo, word |-> word])
  ELSE IF \E i \in DOMAIN nfd : nfd[i] = tonecombiningmarks[n]
  THEN IF toneinfo # None
       THEN Raise("Too many combining tone marks")
       ELSE ScanMarks(n + 1, n, replace1(word, tonecombiningmarks[n], <<>>), nfd)
  ELSE ScanMarks(n + 1, toneinfo, word, nfd)

\* the sanity check against the valid pinyin list, and the construction
CheckValid(word, toneinfo) ==
  IF lower(word) \notin validpinyin
  THEN Raise("doesn't look like pinyin")
  ELSE Return(Pinyin(word, toneinfo))

\* parse that takes the "2 to 7 characters" of its error message at its word
parse_short(intext, forcenum) ==
  LET t == substituteForUUmlaut(intext) IN
  IF Len(t) < 2 \/ Len(t) >= 7 THEN Raise("not the right length")
  ELSE IF isdigit(t[Len(t)])
  THEN CheckValid(SubSeq(t, 1, Len(t) - 1), ToneInfo(DigitValue(t[Len(t)].b)))
  ELSE IF forcenum THEN Raise("No tone mark present")
  ELSE LET nfd  == NFD(t)
           scan == ScanMarks(1, None, nfd, nfd)
       IN IF ~scan.ok THEN scan
          ELSE CheckValid(NFC(scan.val.word),
                          ToneInfo(IF scan.val.toneinfo = None THEN 5 ELSE scan.val.toneinfo))

parse(intext, forcenum) ==
  LET t == substituteForUUmlaut(intext) IN
  IF Len(t) < 2 \/ Len(t) > 8 THEN Raise("not the right length")
  ELSE IF isdigit(t[Len(t)])
  THEN CheckValid(SubSeq(t, 1, Len(t) - 1), ToneInfo(DigitValue(t[Len(t)].b)))
  ELSE IF forcenum THEN Raise("No tone mark present")
  ELSE LET nfd  == NFD(t)
           scan == ScanMarks(1, None, nfd, nfd)
       IN IF ~scan.ok THEN scan
          ELSE CheckValid(NFC(scan.val.word),
                          ToneInfo(IF scan.val.toneinfo = None THEN 5 ELSE scan.val.toneinfo))

\* numericformat with "or" for "and": the tone digit is dropped whenever asked to hide
numericformat_or(p, hideneutraltone) ==
  IF hideneutraltone \/ p.toneinfo.written = 5
  THEN p.word
  ELSE p.word \o str(p.toneinfo.written)

\* Pinyin.numericformat(hideneutraltone, tone="written")
numericformat(p, hideneutraltone) ==
  IF hideneutraltone /\ p.toneinfo.written = 5
  THEN p.word
  ELSE p.word \o str(p.toneinfo.written)

\* Pinyin.iser
PinyinIser(p) == lower(p.word) = S(<<"r">>) /\ p.toneinfo.written = 5

(***************************************************************************)
(* Text tokens and the tokenizer.                                          *)
(***************************************************************************)
\* Text.__new__: raises on the empty string
Text(s) ==
  IF Len(s) = 0 THEN Raise("All Text tokens must be non-empty")
  ELSE Return([type |-> "Text", text |-> s])

\* the class (\w|:) of the tokenizer's regular expression, re.UNICODE
IsRunChar(c) ==
  \/ c.b \in Digits \cup {"_"} /\ ~c.u /\ c.m = 0
  \/ c = L(":")
  \/ \E i \in 1..26 : c.b = UpperCase[i] \/ c.b = LowerCase[i]

\* length of the longest prefix of s whose characters are all run (or all
\* non-run) characters, like its first one
RECURSIVE PrefixLen(_, _)
PrefixLen(s, run) ==
  IF s = <<>> \/ IsRunChar(Head(s)) # run THEN 0
  ELSE 1 + PrefixLen(Tail(s), run)

\* utils.regexparse(re.compile(u"(\w|:)+", re.UNICODE), text): the maximal
\* runs, flagged recognised, and the text between them, flagged not
RECURSIVE regexparse(_)
regexparse(s) ==
  IF s = <<>> THEN <<>>
  ELSE LET run == IsRunChar(Head(s))
           k   == PrefixLen(s, run)
       IN <<[recognised |-> run, match |-> SubSeq(s, 1, k)]>>
            \o regexparse(SubSeq(s, k + 1, Len(s)))

\* tokenizeonewitherhua whose erhua retry is not wrapped in try/except
tokenizeonewitherhua_nocatch(possible_token, forcenum) ==
  LET n      == Len(possible_token)
      first  == parse(possible_token, forcenum)
      second == parse(SubSeq(possible_token, 1, n - 1), forcenum)
      plain  == Text(possible_token)
  IN IF first.ok THEN Return(<<first.val>>)
     ELSE IF n > 0 /\ lower(possible_token)[n] = L("r")
     THEN IF second.ok
          THEN Return(<<second.val, Pinyin(<<possible_token[n]>>, ToneInfo(5))>>)
          ELSE second
     ELSE IF plain.ok THEN Return(<<plain.val>>) ELSE plain

\* tokenizeonewitherhua that tests endswith("r") without lower()
tokenizeonewitherhua_nolower(possible_token, forcenum) ==
  LET n      == Len(possible_token)
      first  == parse(possible_token, forcenum)
      second == parse(SubSeq(possible_token, 1, n - 1), forcenum)
      plain  == Text(possible_token)
  IN IF first.ok THEN Return(<<first.val>>)
     ELSE IF n > 0 /\ possible_token[n] = L("r") /\ second.ok
     THEN Return(<<second.val, Pinyin(<<possible_token[n]>>, ToneInfo(5))>>)
     ELSE IF plain.ok THEN Return(<<plain.val>>) ELSE plain

\* tokenizeonewitherhua that gives up with no token instead of a Text
tokenizeonewitherhua_drop(possible_token, forcenum) ==
  LET n      == Len(possible_token)
      first  == parse(possible_token, forcenum)
      second == parse(SubSeq(possible_token, 1, n - 1), forcenum)
  IN IF first.ok THEN Return(<<first.val>>)
     ELSE IF n > 0 /\ lower(possible_token)[n] = L("r") /\ second.ok
     THEN Return(<<second.val, Pinyin(<<possible_token[n]>>, ToneInfo(5))>>)
     ELSE Return(<<>>)

tokenizeonewitherhua(possible_token, forcenum) ==
  LET n      == Len(possible_token)
      first  == parse(possible_token, forcenum)
      second == parse(SubSeq(possible_token, 1, n - 1), forcenum)
      plain  == Text(possible_token)
  IN IF first.ok THEN Return(<<first.val>>)
     ELSE IF n > 0 /\ lower(possible_token)[n] = L("r") /\ second.ok
     THEN Return(<<second.val, Pinyin(<<possible_token[n]>>, ToneInfo(5))>>)
     ELSE IF plain.ok THEN Return(<<plain.val>>) ELSE plain

\* the loop of tokenize over the segments; acc is the list built so far
RECURSIVE TokenizeLoop(_, _, _)
TokenizeLoop(segs, forcenum, acc) ==
  IF segs = <<>> THEN Return(acc)
  ELSE LET seg == Head(segs)
           got == IF seg.recognised
                  THEN tokenizeonewitherhua(seg.match, forcenum)
                  ELSE LET t == Text(seg.match)
                       IN IF t.ok THEN Return(<<t.val>>) ELSE t
       IN IF ~got.ok THEN got
          ELSE TokenizeLoop(Tail(segs), forcenum, acc \o got.val)

tokenize(intext, forcenum) == TokenizeLoop(regexparse(intext), forcenum, <<>>)

(***************************************************************************)
(* flatten with tonify=False: FlattenTokensVisitor over one Word.          *)
(***************************************************************************)
visitToken(token) ==
  IF token.type = "Pinyin" THEN numericformat(token, TRUE) ELSE token.text

RECURSIVE flatten(_)
flatten(word) ==
  IF word = <<>> THEN <<>> ELSE visitToken(Head(word)) \o flatten(Tail(word))

(***************************************************************************)
(* The tokenizer as a state machine: a text and a forcenumeric flag are    *)
(* chosen, tokenize (or tokenizeonewitherhua, on a candidate run) is       *)
(* called, and the tokens are flattened as one Word.                       *)
(***************************************************************************)
\* all strings over alphabet A of length at most n
Strings(A, n) == UNION { [1..k -> A] : k \in 0..n }

NoPinyin == [type |-> "None"]

NoRet == [ok |-> FALSE, err |-> "not called"]

TokAlphabet ==
  { L("n"), L("i"), L("r"), L("R"), L("v"), L("3"), L("5"), L("0"), L(" "), T("i", 3) }

InitTokenize ==
  /\ pc = "start"
  /\ text \in Strings(TokAlphabet, MaxLen)
  /\ forcenumeric \in BOOLEAN
  /\ pinyin = NoPinyin
  /\ reading_tokens = <<>>
  /\ ret = NoRet
  /\ output = <<>>

Tokenize ==
  /\ pc = "start"
  /\ ret' = tokenize(text, forcenumeric)
  /\ pc' = IF ret'.ok THEN "tokenized" ELSE "raised"
  /\ UNCHANGED <<text, forcenumeric, pinyin, reading_tokens, output>>

\* a candidate run is a non-empty match of (\w|:)+
IsRun(s) == s # <<>> /\ \A i \in DOMAIN s : IsRunChar(s[i])

TokenizeOneWithErhua ==
  /\ pc = "start"
  /\ IsRun(text)
  /\ ret' = tokenizeonewitherhua(text, forcenumeric)
  /\ pc' = IF ret'.ok THEN "one" ELSE "raised"
  /\ UNCHANGED <<text, forcenumeric, pinyin, reading_tokens, output>>

Flatten ==
  /\ pc = "tokenized"
  /\ output' = flatten(ret.val)
  /\ pc' = "flattened"
  /\ UNCHANGED <<text, forcenumeric, pinyin, reading_tokens, ret>>

NextTokenize == Tokenize \/ TokenizeOneWithErhua \/ Flatten

SpecTokenize == InitTokenize /\ [][NextTokenize]_vars

(***************************************************************************)
(* Properties of the tokenizer.                                            *)
(***************************************************************************)
\* the maximal runs of run characters of s
RunsOf(s) ==
  { SubSeq(s, i, j) : <<i, j>> \in
      { ij \in (DOMAIN s) \X (DOMAIN s) :
          /\ ij[1] <= ij[2]
          /\ \A k \in ij[1]..ij[2] : IsRunChar(s[k])
          /\ ij[1] = 1 \/ ~IsRunChar(s[ij[1] - 1])
          /\ ij[2] = Len(s) \/ ~IsRunChar(s[ij[2] + 1]) } }

\* the run fails to parse as a whole, ends in r or R, and parses without it
ErhuaRecoverable(run, forcenum) ==
  /\ ~parse(run, forcenum).ok
  /\ run[Len(run)] \in {L("r"), L("R")}
  /\ parse(SubSeq(run, 1, Len(run) - 1), forcenum).ok

Parseable(run, forcenum) == parse(run, forcenum).ok \/ ErhuaRecoverable(run, forcenum)

NoErhuaRun == \A run \in RunsOf(text) : ~ErhuaRecoverable(run, forcenumeric)

\* the run is written with a final tone digit 1-4 and without v, V, u: or U:
PlainNumeric(run) ==
  /\ run[Len(run)] \in {L("1"), L("2"), L("3"), L("4")}
  /\ \A i \in DOMAIN run : run[i] \notin {L("v"), L("V")}
  /\ \A i \in 1..(Len(run) - 1) : ~(run[i] \in {L("u"), L("U")} /\ run[i + 1] = L(":"))

NothingParses == \A run \in RunsOf(text) : ~Parseable(run, forcenumeric)

\* are all characters of s in the class (\w|:), or none of them
Homogeneous(s) ==
  \/ \A i \in DOMAIN s : IsRunChar(s[i])
  \/ \A i \in DOMAIN s : ~IsRunChar(s[i])

RECURSIVE ConcatTexts(_)
ConcatTexts(ts) ==
  IF ts = <<>> THEN <<>> ELSE Head(ts).text \o ConcatTexts(Tail(ts))

\* C2 as stated: a (non-empty) text none of whose runs parses (directly or by
\* erhua recovery) tokenizes to exactly one Text token, the whole input.
C2_OneTextAsStated ==
  (pc = "tokenized" /\ text # <<>> /\ NothingParses) => ret.val = <<[type |-> "Text", text |-> text]>>

\* C2 amended: such a text tokenizes to Text tokens only, one for each maximal
\* run and one for each maximal stretch between runs, in order: every token is
\* non-empty and of one class, neighbours are of different classes, and the
\* tokens concatenate to the input.
C2_TextPerSegment ==
  (pc = "tokenized" /\ NothingParses) =>
    /\ \A i \in DOMAIN ret.val :
         /\ ret.val[i].type = "Text"
         /\ ret.val[i].text # <<>>
         /\ Homogeneous(ret.val[i].text)
    /\ \A i \in 1..(Len(ret.val) - 1) :
         IsRunChar(ret.val[i].text[1]) # IsRunChar(ret.val[i + 1].text[1])
    /\ ConcatTexts(ret.val) = text

C2_Witness ==
  /\ pc = "tokenized" /\ NothingParses
  /\ Len(ret.val) = 3
  /\ \E run \in RunsOf(text) : Len(run) >= 2

\* C4: tokenize (and the per-run step) never raises, for either value of
\* forcenumeric, and every Text token it emits is non-empty.
C4_NeverFails ==
  /\ pc # "raised"
  /\ pc \in {"tokenized", "one"} =>
       \A i \in DOMAIN ret.val : ret.val[i].type = "Text" => ret.val[i].text # <<>>

\* a run ending in r that parses neither whole nor shortened came out as Text
C4_Witness ==
  /\ pc = "tokenized"
  /\ \E run \in RunsOf(text) :
       /\ run[Len(run)] = L("r")
       /\ ~Parseable(run, forcenumeric)
       /\ \E i \in DOMAIN ret.val : ret.val[i] = [type |-> "Text", text |-> run]

\* C5 as stated: an erhua-recoverable run gives the syllable of the shortened
\* run followed by Pinyin("r", 5), whatever the case of the final letter.
C5_ErhuaAsStated ==
  (pc = "one" /\ ErhuaRecoverable(text, forcenumeric)) =>
    /\ Len(ret.val) = 2
    /\ ret.val[1] = parse(SubSeq(text, 1, Len(text) - 1), forcenumeric).val
    /\ ret.val[2] = [type |-> "Pinyin", word |-> <<L("r")>>,
                     toneinfo |-> [written |-> 5, spoken |-> 5]]

\* C5 amended: the second token is spelled with the run's own last character
\* ("r" or "R"), has tone 5, and is an erhua token.
C5_Erhua ==
  (pc = "one" /\ ErhuaRecoverable(text, forcenumeric)) =>
    /\ Len(ret.val) = 2
    /\ ret.val[1] = parse(SubSeq(text, 1, Len(text) - 1), forcenumeric).val
    /\ ret.val[2] = [type |-> "Pinyin", word |-> <<text[Len(text)]>>,
                     toneinfo |-> [written |-> 5, spoken |-> 5]]
    /\ PinyinIser(ret.val[2])

C5_Witness ==
  /\ pc = "one" /\ ErhuaRecoverable(text, forcenumeric)
  /\ text[Len(text)] = L("R")
  /\ Len(ret.val) = 2 /\ ret.val[1].toneinfo.written = 3

(***************************************************************************)
(* The syllable parser as a state machine: either a text is chosen and     *)
(* parsed, or a Pinyin object is chosen, formatted with numericformat()    *)
(* and the result parsed.                                                  *)
(***************************************************************************)
ParseAlphabet ==
  { L("n"), L("i"), L("a"), L("r"), L("v"), L("3"), L("0"), L("9"),
    T("a", 3), T("i", 3), T("i", 4), T("", 3) }

Tones == 1..5

InitParse ==
  /\ forcenumeric \in BOOLEAN
  /\ reading_tokens = <<>>
  /\ ret = NoRet
  /\ output = <<>>
  /\ \/ /\ pc = "start"
        /\ pinyin = NoPinyin
        /\ text \in Strings(ParseAlphabet, MaxParseLen)
     \/ /\ pc = "object"
        /\ pinyin \in { Pinyin(s, ToneInfo(t)) : s \in validpinyin, t \in Tones }
        /\ text = <<>>

NumericFormat ==
  /\ pc = "object"
  /\ text' = numericformat(pinyin, FALSE)
  /\ pc' = "start"
  /\ UNCHANGED <<forcenumeric, pinyin, reading_tokens, ret, output>>

Parse ==
  /\ pc = "start"
  /\ ret' = parse(text, forcenumeric)
  /\ pc' = "parsed"
  /\ UNCHANGED <<text, forcenumeric, pinyin, reading_tokens, output>>

NextParse == NumericFormat \/ Parse

SpecParse == InitParse /\ [][NextParse]_vars

\* C3: for every valid spelling s and tone t in 1..5, parsing the numeric
\* format of Pinyin(s, t) succeeds and gives an equal Pinyin (same spelling,
\* same written and spoken tone).
C3_NumericRoundTrip ==
  (pc = "parsed" /\ pinyin # NoPinyin) =>
    /\ ret.ok
    /\ ret.val.type = "Pinyin"
    /\ ret.val.word = pinyin.word
    /\ ret.val.toneinfo.written = pinyin.toneinfo.written
    /\ ret.val.toneinfo.spoken = pinyin.toneinfo.spoken

\* the longest spelling of the sample, formatted with the neutral tone 5
C3_Witness ==
  /\ pc = "parsed" /\ pinyin # NoPinyin /\ ret.ok
  /\ Len(pinyin.word) = 6 /\ pinyin.toneinfo.written = 5

\* C6: every Pinyin that parse returns has written and spoken tones in 1..5,
\* equal to each other.
C6_TonesInRange ==
  (pc = "parsed" /\ ret.ok) =>
    /\ ret.val.toneinfo.written \in 1..5
    /\ ret.val.toneinfo.spoken \in 1..5
    /\ ret.val.toneinfo.written = ret.val.toneinfo.spoken

\* the number of combining tone marks in the decomposed text
MarkCount(s) == Cardinality({ i \in DOMAIN NFD(s) : NFD(s)[i].b = "" /\ ~NFD(s)[i].u })

DiacriticMode == text # <<>> /\ ~isdigit(text[Len(text)]) /\ ~forcenumeric

\* C9: in diacritic mode parse fails whenever the decomposed text holds more
\* than one combining tone mark, of different kinds or of the same kind, and
\* returns a tone 1-4 only when exactly one mark is present.
C9_TwoMarksFail ==
  (pc = "parsed" /\ pinyin = NoPinyin /\ DiacriticMode) =>
    /\ MarkCount(text) > 1 => ~ret.ok
    /\ (ret.ok /\ ret.val.toneinfo.written \in 1..4) => MarkCount(text) = 1

(***************************************************************************)
(* Word.spacedwordfromunspacedtokens and tonedcharactersfromreading.       *)
(***************************************************************************)
TonedCharacter(character, toneinfo) ==
  [type |-> "TonedCharacter", text |-> character, toneinfo |-> toneinfo]

\* the Chinese characters of the model, named by their code points
CharNi == L("U+4F60")

CharErSimplified == L("U+513F")

CharErTraditional == L("U+5152")

\* the iser property of the three token classes
iser(token) ==
  CASE token.type = "Text" -> FALSE
    [] token.type = "Pinyin" -> PinyinIser(token)
    [] token.type = "TonedCharacter" ->
         /\ token.text \in {<<CharErSimplified>>, <<CharErTraditional>>}
         /\ token.toneinfo.written = 5

\* the loop of spacedwordfromunspacedtokens from index n on (n counts from 0
\* in the code, from 1 here); word is the Word built so far
RECURSIVE SpacedLoop(_, _, _)
SpacedLoop(toks, n, word) ==
  IF n > Len(toks) THEN word
  ELSE SpacedLoop(toks, n + 1,
         (IF n # 1 /\ ~iser(toks[n])
          THEN Append(word, Text(<<L(" ")>>).val)
          ELSE word) \o <<toks[n]>>)

\* the same loop without the erhua test
spacedwordfromunspacedtokens_noerhua(toks) ==
  [i \in 1..(IF toks = <<>> THEN 0 ELSE 2 * Len(toks) - 1) |->
     IF i % 2 = 1 THEN toks[(i + 1) \div 2] ELSE Text(<<L(" ")>>).val]

spacedwordfromunspacedtokens(toks) == SpacedLoop(toks, 1, <<>>)

\* unicode.isdecimal() of one character
isdecimal(c) == isdigit(c)

\* the loop of tonedcharactersfromreading over zip(characters, reading_tokens)
RECURSIVE TonedLoop(_, _)
TonedLoop(characters, toks) ==
  IF characters = <<>> \/ toks = <<>> THEN <<>>
  ELSE << IF Head(toks).type \in {"Pinyin", "TonedCharacter"} /\ ~isdecimal(Head(characters))
          THEN TonedCharacter(<<Head(characters)>>, Head(toks).toneinfo)
          ELSE Text(<<Head(characters)>>).val >>
       \o TonedLoop(Tail(characters), Tail(toks))

tonedcharactersfromreading(characters, toks) ==
  IF Len(characters) # Len(toks)
  THEN LET t == Text(characters) IN IF t.ok THEN Return(<<t.val>>) ELSE t
  ELSE Return(TonedLoop(characters, toks))

TokenPool ==
  { Pinyin(S(<<"n","i">>), ToneInfo(3)),
    Pinyin(S(<<"r">>), ToneInfo(5)),
    Pinyin(S(<<"R">>), ToneInfo(5)),
    Pinyin(S(<<"r">>), ToneInfo(3)),
    Text(<<L(" ")>>).val,
    TonedCharacter(<<CharErSimplified>>, ToneInfo(5)),
    TonedCharacter(<<CharNi>>, ToneInfo(3)) }

CharAlphabet == { CharNi, CharErSimplified, L("3") }

InitWord ==
  /\ pc = "start"
  /\ text \in Strings(CharAlphabet, MaxChars)
  /\ reading_tokens \in Strings(TokenPool, MaxTokens)
  /\ forcenumeric = FALSE
  /\ pinyin = NoPinyin
  /\ ret = NoRet
  /\ output = <<>>

SpacedWord ==
  /\ pc = "start"
  /\ ret' = Return(spacedwordfromunspacedtokens(reading_tokens))
  /\ pc' = "spaced"
  /\ UNCHANGED <<text, forcenumeric, pinyin, reading_tokens, output>>

TonedCharacters ==
  /\ pc = "start"
  /\ ret' = tonedcharactersfromreading(text, reading_tokens)
  /\ pc' = IF ret'.ok THEN "toned" ELSE "raised"
  /\ UNCHANGED <<text, forcenumeric, pinyin, reading_tokens, output>>

NextWord == SpacedWord \/ TonedCharacters

SpecWord == InitWord /\ [][NextWord]_vars

\* C7: when the number of characters differs from the number of reading
\* tokens, tonedcharactersfromreading does not raise and returns exactly one
\* Text token holding the characters.
C7_MismatchGivesText ==
  (pc \in {"toned", "raised"} /\ Len(text) # Len(reading_tokens)) =>
    /\ ret.ok
    /\ ret.val = <<[type |-> "Text", text |-> text]>>

\* how many spaces are inserted up to and including input token i
SpacesUpTo(i) == Cardinality({ j \in 2..i : ~iser(reading_tokens[j]) })

\* C8: the Word holds the input tokens in their order, with exactly one
\* Text(" ") immediately before each input token that is neither the first
\* nor an erhua token, and nothing else.
C8_SpacedWord ==
  pc = "spaced" =>
    /\ Len(ret.val) = Len(reading_tokens) + SpacesUpTo(Len(reading_tokens))
    /\ \A i \in DOMAIN reading_tokens :
         /\ ret.val[i + SpacesUpTo(i)] = reading_tokens[i]
         /\ (i # 1 /\ ~iser(reading_tokens[i])) =>
              ret.val[i + SpacesUpTo(i) - 1] = [type |-> "Text", text |-> <<L(" ")>>]

\* a word with an erhua syllable in the middle and a plain one after it
C8_Witness ==
  /\ pc = "spaced"
  /\ Len(reading_tokens) = 3
  /\ iser(reading_tokens[2]) /\ ~iser(reading_tokens[3])
  /\ Len(ret.val) = 4

(***************************************************************************)
(* PinyinTonifier.  The two rule tables are Python dicts, and tonify walks *)
(* them with items(): the order of the rules within one pass is whatever   *)
(* the dict yields, so it is an argument here, chosen freely by the caller.*)
(***************************************************************************)
ToneDigits == { L("1"), L("2"), L("3"), L("4") }

Chars(bases) == { L(c) : c \in bases }

\* ([nNrR])([1234]) and ([nN][gG])([1234]), both rewritten to \g<2>\g<1>
constTone2ToneConst ==
  { [name |-> "nr", group1 |-> <<Chars({"n","N","r","R"})>>],
    [name |-> "ng", group1 |-> <<Chars({"n","N"}), Chars({"g","G"})>>] }

\* ([aA])([iIoO])([1234]), ([eE])([iI])([1234]) and ([oO])([uU])([1234]),
\* all rewritten to \g<1>\g<3>\g<2>
vowelVowelTone2VowelToneVowel ==
  { [name |-> "a", group1 |-> Chars({"a","A"}), group2 |-> Chars({"i","I","o","O"})],
    [name |-> "e", group1 |-> Chars({"e","E"}), group2 |-> Chars({"i","I"})],
    [name |-> "o", group1 |-> Chars({"o","O"}), group2 |-> Chars({"u","U"})] }

\* the orders in which items() may yield the entries of a dict
ItemOrders(dict) ==
  { f \in [1..Cardinality(dict) -> dict] : \A i, j \in DOMAIN f : f[i] = f[j] => i = j }

\* does s start with one character from each set of groups, then a tone digit
StartsWith(s, groups) ==
  /\ Len(s) > Len(groups)
  /\ \A i \in DOMAIN groups : s[i] \in groups[i]
  /\ s[Len(groups) + 1] \in ToneDigits

\* re.sub of a consonant rule: the digit moves in front of the final
RECURSIVE SubConst(_, _)
SubConst(rule, s) ==
  IF s = <<>> THEN <<>>
  ELSE IF StartsWith(s, rule.group1)
  THEN LET k == Len(rule.group1)
       IN <<s[k + 1]>> \o SubSeq(s, 1, k) \o SubConst(rule, SubSeq(s, k + 2, Len(s)))
  ELSE <<Head(s)>> \o SubConst(rule, Tail(s))

\* re.sub of a vowel rule: the digit moves between the two vowels
RECURSIVE SubVowel(_, _)
SubVowel(rule, s) ==
  IF s = <<>> THEN <<>>
  ELSE IF StartsWith(s, <<rule.group1, rule.group2>>)
  THEN <<s[1], s[3], s[2]>> \o SubVowel(rule, SubSeq(s, 4, Len(s)))
  ELSE <<Head(s)>> \o SubVowel(rule, Tail(s))

\* first transform: every consonant rule in turn, over the whole line
RECURSIVE ConstPass(_, _)
ConstPass(rules, line) ==
  IF rules = <<>> THEN line ELSE ConstPass(Tail(rules), SubConst(Head(rules), line))

\* second transform: every vowel rule in turn, over the whole line
RECURSIVE VowelPass(_, _)
VowelPass(rules, line) ==
  IF rules = <<>> THEN line ELSE VowelPass(Tail(rules), SubVowel(Head(rules), line))

\* third transform: digit x+1 becomes tonecombiningmarks[x], and 5 disappears
MarkPass(line) ==
  replace1(replace1(replace1(replace1(replace1(line,
    L("1"), <<tonecombiningmarks[1]>>),
    L("2"), <<tonecombiningmarks[2]>>),
    L("3"), <<tonecombiningmarks[3]>>),
    L("4"), <<tonecombiningmarks[4]>>),
    L("5"), <<>>)

\* tonify with the vowel relocation run before the consonant relocation
tonify_vowelsfirst(line, constorder, vowelorder) ==
  NFC(MarkPass(ConstPass(constorder, VowelPass(vowelorder, line))))

tonify(line, constorder, vowelorder) ==
  NFC(MarkPass(VowelPass(vowelorder, ConstPass(constorder, line))))

TonifyLetters == Chars({"a", "o", "u", "i", "e", "n", "g", "r", "A"})

TonifyDigits == { L("1"), L("3") }

\* the lines tonify is given: letters followed by one tone digit
InitTonify ==
  /\ pc = "start"
  /\ text \in { Append(pre, d) :
                  pre \in Strings(TonifyLetters, MaxLetters), d \in TonifyDigits }
  /\ forcenumeric = FALSE
  /\ pinyin = NoPinyin
  /\ reading_tokens = <<>>
  /\ ret = NoRet
  /\ output = <<>>

Tonify ==
  /\ pc = "start"
  /\ \E constorder \in ItemOrders(constTone2ToneConst),
        vowelorder \in ItemOrders(vowelVowelTone2VowelToneVowel) :
       output' = tonify(text, constorder, vowelorder)
  /\ pc' = "tonified"
  /\ UNCHANGED <<text, forcenumeric, pinyin, reading_tokens, ret>>

NextTonify == Tonify

SpecTonify == InitTonify /\ [][NextTonify]_vars

\* where the tone digit stands in the line
DigitAt == CHOOSE d \in DOMAIN text : text[d] \in TonifyDigits

IsPair(x, y) ==
  <<LowerBase(x.b), LowerBase(y.b)>> \in { <<"a","i">>, <<"a","o">>, <<"e","i">>, <<"o","u">> }

\* the index of the first vowel of a listed pair that the tone digit follows,
\* immediately or after a final n, r or ng; 0 when there is none
PairBeforeDigit ==
  LET d == DigitAt
      f == IF d > 1 /\ LowerBase(text[d - 1].b) \in {"n", "r"} THEN 1
           ELSE IF d > 2 /\ LowerBase(text[d - 2].b) = "n" /\ LowerBase(text[d - 1].b) = "g"
           THEN 2 ELSE 0
      p == d - f - 2
  IN IF p >= 1 /\ IsPair(text[p], text[p + 1]) THEN p ELSE 0

\* the line with its digit removed and the matching mark fused onto letter p
MarkedAt(p) ==
  LET d      == DigitAt
      marked == [text EXCEPT ![p] = T(text[p].b, DigitValue(text[d].b))]
  IN SubSeq(marked, 1, d - 1) \o SubSeq(marked, d + 1, Len(marked))

AouBeforeDigit ==
  /\ PairBeforeDigit > 1
  /\ LowerBase(text[PairBeforeDigit].b) = "o"
  /\ LowerBase(text[PairBeforeDigit - 1].b) = "a"

tonifiedformat(p, constorder, vowelorder) ==
  tonify(numericformat(p, FALSE), constorder, vowelorder)

InitTonified ==
  /\ pc = "object"
  /\ pinyin \in { Pinyin(s, ToneInfo(t)) : s \in validpinyin, t \in Tones }
  /\ forcenumeric \in BOOLEAN
  /\ text = <<>>
  /\ reading_tokens = <<>>
  /\ ret = NoRet
  /\ output = <<>>

TonifiedFormat ==
  /\ pc = "object"
  /\ \E constorder \in ItemOrders(constTone2ToneConst),
        vowelorder \in ItemOrders(vowelVowelTone2VowelToneVowel) :
       text' = tonifiedformat(pinyin, constorder, vowelorder)
  /\ pc' = "start"
  /\ UNCHANGED <<forcenumeric, pinyin, reading_tokens, ret, output>>

NextTonified == TonifiedFormat \/ Parse

SpecTonified == InitTonified /\ [][NextTonified]_vars

\* C11: for every valid spelling s (one-letter spellings and the sentinel r
\* included) and every tone t in 1..5, parsing the tonified format of
\* Pinyin(s, t) with forcenumeric false succeeds and gives an equal Pinyin.
C11_DiacriticRoundTrip ==
  (pc = "parsed" /\ ~forcenumeric) =>
    /\ ret.ok
    /\ ret.val.type = "Pinyin"
    /\ ret.val.word = pinyin.word
    /\ ret.val.toneinfo.written = pinyin.toneinfo.written
    /\ ret.val.toneinfo.spoken = pinyin.toneinfo.spoken
====
